---------------------------- MODULE Spec2Model ----------------------------
(***************************************************************************)
(* Claude Island backend: the session store (state_manager.py), the hook   *)
(* socket server (socket_server.py) and the frontend decision entry point  *)
(* (dbus_service.py), as a state machine.                                  *)
(*                                                                         *)
(* Python dicts are functions whose DOMAIN is their key set, lists are     *)
(* sequences, Optional values are None or a record.  A missing key of a    *)
(* hook event is the value Absent.  Timestamps are kept only where a       *)
(* statement reads them (pending_approval["timestamp"]); the write-only    *)
(* SessionStore._pending_tool_cache and Session.created_at / updated_at    *)
(* are never read by the program and are left out.                         *)
(***************************************************************************)
EXTENDS Naturals, Sequences, FiniteSets, TLC

VARIABLES
    sessions,           \* SessionStore.sessions: session_id -> Session
    pending_approvals,  \* HookSocketServer.pending_approvals: session_id -> writer
    conns,              \* the hook connections (StreamWriter) by connection id
    emitted,            \* the D-Bus signals emitted by the last operation
    now,                \* wall clock (datetime.now()), in ticks
    ref_sessions,       \* the store after the same events without the unknown ones
    log,                \* s1/conversation.jsonl: whether it exists, and its text
    parsers,            \* ConversationFileHandler.parsers: session id -> last_position
    debounce_times,     \* the paths whose debounce_times entry is less than debounce_delay old
    watch,              \* the file system events of the path not yet delivered
    started             \* FileMonitor.start has run

logvars == <<log, parsers, debounce_times, watch, started>>

VARIABLES
    server,             \* HookSocketServer.server: "listening" or "closed"
    main_call,          \* the store call in progress on the main thread, or None
    watcher_call,       \* the store call in progress on the watchdog thread, or None
    applied,            \* the sessions produced by the changes of the store, in order
    seen                \* what the observer was shown: the change and the session read

VARIABLES
    observers,          \* SessionStore.observers: the registered callbacks, in order
    notified,           \* the observers the last store call has called
    logged,             \* the observers whose exception the last store call logged
    returned            \* whether the last store call returned normally

obsvars == <<observers, notified, logged, returned>>

VARIABLES
    dialogs,            \* the approval dialogs the applet has open
    receiving,          \* the connections whose hook script waits in recv
    printed             \* what the last hook script of a PermissionRequest printed

clientvars == <<dialogs, receiving, printed>>

VARIABLES
    scan_pending,       \* FileMonitor.start is between observer.start() and the scan
    polling,            \* the on_modified call in progress on the watchdog thread, or None
    reader_view         \* what the last GetConversation returned, and the call it ran during

monitorvars == <<scan_pending, polling, reader_view>>

runvars == <<server, main_call, watcher_call, applied, seen, obsvars, clientvars,
             monitorvars>>

vars == <<sessions, pending_approvals, conns, emitted, now, ref_sessions, logvars, runvars>>

---------------------------------------------------------------------------
(* Bounds of the model *)

MaxConns == 2
MaxToolRecords == 1
MaxConversation == 1
MaxClock == 3
MaxLogLines == 2
MaxLogConversation == 2
MaxChanges == 3

(* approval_timeout: TIMEOUT = 300 s, here in clock ticks of 150 s *)
ApprovalTimeout == 2

---------------------------------------------------------------------------
(* Values *)

None == [none |-> TRUE]
Absent == "<absent>"

SessionIds == {"s1", "s2"}
ToolNames == {"Read", "Bash"}
ParamValues == {"p1"}
ResultValues == {"r1"}
Messages == {[type |-> "assistant", content |-> "hello"]}
Decisions == {"allow", "deny"}
ConnIds == 1..MaxConns

KnownTypes == {"SessionStart", "SessionEnd", "UserPromptSubmit", "PreToolUse",
               "PostToolUse", "PermissionRequest", "Notification", "Stop",
               "SubagentStop"}
UnknownTypes == {"PreCompact"}

(* event.get(key, default) *)
Get(value, default) == IF value = Absent THEN default ELSE value

(* Python's "not value" for a key that is missing or holds a string *)
Falsy(value) == value \in {Absent, ""}

(* The hook events over the session ids S: a JSON object with its "type", *)
(* "session_id" and the kind-specific keys, any of which may be missing.  *)
ToolEvents(S, names, params) ==
    [type : {"PreToolUse", "PermissionRequest"}, session_id : S,
     tool_name : names, parameters : params, result : {Absent}]
    \cup
    [type : {"PostToolUse"}, session_id : S,
     tool_name : names, parameters : {Absent}, result : ResultValues]

PlainEvents(S, types) ==
    [type : types, session_id : S,
     tool_name : {Absent}, parameters : {Absent}, result : {Absent}]

HookEvents(S, names, params) ==
    ToolEvents(S, names, params)
        \cup PlainEvents(S, (KnownTypes \ {"PreToolUse", "PostToolUse", "PermissionRequest"})
                                \cup UnknownTypes)

---------------------------------------------------------------------------
(* state_manager.py *)

NewSession ==
    [phase |-> "idle", active_tool |-> None, pending_approval |-> None,
     tools |-> <<>>, conversation |-> <<>>]

handle_session_start(session, event) == [session EXCEPT !.phase = "idle"]

(* handle_session_end that starts the ended session afresh *)
handle_session_end_drops_history(session, event) ==
    [session EXCEPT !.phase = "completed", !.tools = <<>>, !.conversation = <<>>]

handle_session_end(session, event) == [session EXCEPT !.phase = "completed"]

handle_user_prompt(session, event) == [session EXCEPT !.phase = "processing"]

handle_pre_tool_use(session, event) ==
    [session EXCEPT
        !.active_tool = [name |-> Get(event.tool_name, "Unknown"),
                         status |-> "running",
                         result |-> "None",
                         parameters |-> Get(event.parameters, "None")],
        !.phase = "running_tool"]

(* handle_post_tool_use without line 150: the phase is left as it was *)
handle_post_tool_use_keeps_phase(session, event) ==
    IF session.active_tool # None
       /\ session.active_tool.name = Get(event.tool_name, "Unknown")
    THEN [session EXCEPT
            !.tools = Append(session.tools,
                             [session.active_tool EXCEPT
                                 !.status = "success",
                                 !.result = Get(event.result, "None")]),
            !.active_tool = None]
    ELSE session

(* handle_post_tool_use without line 148: the active tool is not cleared *)
handle_post_tool_use_keeps_tool(session, event) ==
    IF session.active_tool # None
       /\ session.active_tool.name = Get(event.tool_name, "Unknown")
    THEN [session EXCEPT
            !.tools = Append(session.tools,
                             [session.active_tool EXCEPT
                                 !.status = "success",
                                 !.result = Get(event.result, "None")]),
            !.phase = "idle"]
    ELSE [session EXCEPT !.phase = "idle"]

handle_post_tool_use(session, event) ==
    LET tool_name == Get(event.tool_name, "Unknown")
        matched == /\ session.active_tool # None
                   /\ session.active_tool.name = tool_name
        closed == IF matched
                  THEN [session EXCEPT
                          !.tools = Append(session.tools,
                                           [session.active_tool EXCEPT
                                               !.status = "success",
                                               !.result = Get(event.result, "None")]),
                          !.active_tool = None]
                  ELSE session
    IN  [closed EXCEPT !.phase = "idle"]

handle_permission_request(session, event, t) ==
    [session EXCEPT
        !.pending_approval = [tool_name |-> Get(event.tool_name, "Unknown"),
                              parameters |-> Get(event.parameters, "{}"),
                              timestamp |-> t],
        !.phase = "waiting_approval"]

handle_notification(session, event) == session

(* handle_stop without line 177: the active tool is not dropped *)
handle_stop_keeps_tool(session, event) == [session EXCEPT !.phase = "idle"]

handle_stop(session, event) ==
    [session EXCEPT !.phase = "idle", !.active_tool = None]

(* The dispatch of SessionStore.process_event on event["type"]. *)
dispatch(session, event, t) ==
    CASE event.type = "SessionStart" -> handle_session_start(session, event)
      [] event.type = "SessionEnd" -> handle_session_end(session, event)
      [] event.type = "UserPromptSubmit" -> handle_user_prompt(session, event)
      [] event.type = "PreToolUse" -> handle_pre_tool_use(session, event)
      [] event.type = "PostToolUse" -> handle_post_tool_use(session, event)
      [] event.type = "PermissionRequest" -> handle_permission_request(session, event, t)
      [] event.type = "Notification" -> handle_notification(session, event)
      [] event.type \in {"Stop", "SubagentStop"} -> handle_stop(session, event)
      [] OTHER -> session

(* process_event without the check of lines 67-69 *)
process_event_unchecked(store, event, t) ==
    LET sid == event.session_id
        ensured == IF sid \in DOMAIN store THEN store
                   ELSE (sid :> NewSession) @@ store
    IN  [ensured EXCEPT ![sid] = dispatch(ensured[sid], event, t)]

(* SessionStore.process_event: the store after the event. *)
process_event(store, event, t) ==
    IF Falsy(event.session_id)
    THEN store
    ELSE LET sid == event.session_id
             ensured == IF sid \in DOMAIN store THEN store
                        ELSE (sid :> NewSession) @@ store
         IN  [ensured EXCEPT ![sid] = dispatch(ensured[sid], event, t)]

(* SessionStore.add_message *)
add_message(store, session_id, message) ==
    IF session_id \notin DOMAIN store
    THEN store
    ELSE [store EXCEPT ![session_id].conversation = Append(@, message)]

(* clear_approval without line 202 *)
clear_approval_keeps_pending(store, session_id) ==
    IF session_id \notin DOMAIN store
    THEN store
    ELSE [store EXCEPT ![session_id].phase = "idle"]

(* SessionStore.clear_approval *)
clear_approval(store, session_id) ==
    IF session_id \notin DOMAIN store
    THEN store
    ELSE [store EXCEPT ![session_id].pending_approval = None,
                       ![session_id].phase = "idle"]

---------------------------------------------------------------------------
(* dbus_service.py: the observer the service registers with the store *)

(* ClaudeIslandDBusService._on_session_changed, with the bus acquired *)
on_session_changed(session_id, session) ==
    <<[signal |-> "SessionStateChanged", session_id |-> session_id,
       phase |-> session.phase]>>
    \o (IF session.pending_approval # None
        THEN <<[signal |-> "PermissionRequest", session_id |-> session_id,
                tool_name |-> session.pending_approval.tool_name,
                params |-> session.pending_approval.parameters]>>
        ELSE <<>>)

(* notify_observers with no observer called *)
notify_observers_none(store, session_id) == <<>>

(* SessionStore.notify_observers(store[session_id]) *)
notify_observers(store, session_id) == on_session_changed(session_id, store[session_id])

---------------------------------------------------------------------------
(* socket_server.py *)

AckFrame == [status |-> "waiting_for_approval"]
DecisionFrame(decision) == [decision |-> decision, reason |-> "User decision from frontend"]

FreshConn == [status |-> "free", frames |-> <<>>]

(* StreamWriter.write: the transport takes the bytes while the writer is  *)
(* open and discards them once close() was called on it.                  *)
writer_write(conn, frame) ==
    IF conn.status = "open" THEN [conn EXCEPT !.frames = Append(@, frame)] ELSE conn

(* A closed writer that pending_approvals does not hold is referred to by  *)
(* nothing in the program: the operations on connections drop it, and its *)
(* connection id is free for a connection accepted later.                 *)
Released(cs, pa) ==
    [c \in ConnIds |->
        IF cs[c].status = "closed" /\ \A s \in DOMAIN pa : pa[s] # c
        THEN FreshConn ELSE cs[c]]

(* asyncio accepts a connection: c is the writer handle_client is given. *)
Accepts(cs, c) ==
    /\ cs[c].status = "free"
    /\ \A d \in ConnIds : cs[d].status = "free" => c <= d

(* The observers after ClaudeIslandDBusService.__init__ (line 75), and no *)
(* store call made yet                                                    *)
InitObservers ==
    /\ observers = <<"dbus">>
    /\ notified = <<>>
    /\ logged = {}
    /\ returned = TRUE
    /\ dialogs = {}
    /\ receiving = {}
    /\ printed = None
    /\ scan_pending = FALSE
    /\ polling = None
    /\ reader_view = None

Init ==
    /\ sessions = <<>>
    /\ pending_approvals = <<>>
    /\ conns = [c \in ConnIds |-> FreshConn]
    /\ emitted = <<>>
    /\ now = 0
    /\ ref_sessions = <<>>
    /\ log = [exists |-> FALSE, text |-> <<>>]
    /\ parsers = <<>>
    /\ debounce_times = {}
    /\ watch = [created |-> FALSE, modified |-> FALSE]
    /\ started = FALSE
    /\ server = "listening"
    /\ main_call = None
    /\ watcher_call = None
    /\ applied = <<>>
    /\ seen = <<>>
    /\ InitObservers

(* The appends the model allows: lists grow without bound in the program. *)
WithinBounds(store) ==
    \A s \in DOMAIN store : Len(store[s].tools) <= MaxToolRecords

ConversationWithin(store, bound) ==
    \A s \in DOMAIN store : Len(store[s].conversation) <= bound

(* process_event that keeps the writer a session already has *)
register_writer_keeps_first(pa, event, c) ==
    IF event.type = "PermissionRequest" /\ ~Falsy(event.session_id)
       /\ event.session_id \notin DOMAIN pa
    THEN (event.session_id :> c) @@ pa
    ELSE pa

(* HookSocketServer.process_event: the store is updated, and a            *)
(* PermissionRequest that carries a session_id registers the writer.      *)
register_writer(pa, event, c) ==
    IF event.type = "PermissionRequest" /\ ~Falsy(event.session_id)
    THEN (event.session_id :> c) @@ pa
    ELSE pa

(* process_event answering every event with the acknowledgement *)
response_always_ack(event) == AckFrame

(* The response of HookSocketServer.process_event *)
response(event) ==
    IF event.type = "PermissionRequest" THEN AckFrame ELSE None

(* handle_client that applies an undecodable payload as a SessionStart *)
HandleClientMalformed_applied(c) ==
    LET cs == Released(conns, pending_approvals)
        event == [type |-> "SessionStart", session_id |-> "s1", tool_name |-> Absent,
                  parameters |-> Absent, result |-> Absent]
    IN  /\ Accepts(cs, c)
        /\ conns' = [cs EXCEPT ![c] = [status |-> "closed", frames |-> <<>>]]
        /\ sessions' = process_event(sessions, event, now)
        /\ emitted' = notify_observers(sessions', "s1")
        /\ UNCHANGED <<pending_approvals, now, ref_sessions, logvars, runvars>>

(* HookSocketServer.handle_client on an empty or non-JSON payload:        *)
(* return, and the finally clause closes the writer.                      *)
HandleClientMalformed(c) ==
    LET cs == Released(conns, pending_approvals)
    IN  /\ Accepts(cs, c)
        /\ conns' = [cs EXCEPT ![c] = [status |-> "closed", frames |-> <<>>]]
        /\ emitted' = <<>>
        /\ UNCHANGED <<sessions, pending_approvals, now, ref_sessions, logvars, runvars>>

(* HookSocketServer.handle_client on a hook event, up to its first        *)
(* suspension: process_event, then for a PermissionRequest the            *)
(* acknowledgement is written and drain() awaited; for any other event    *)
(* there is no response and the finally clause closes the writer.         *)
handle_client(c, event) ==
    LET cs == Released(conns, pending_approvals)
        opened == [status |-> "open", frames |-> <<>>]
    IN  /\ Accepts(cs, c)
        /\ WithinBounds(process_event(sessions, event, now))
        /\ sessions' = process_event(sessions, event, now)
        /\ emitted' = IF Falsy(event.session_id) THEN <<>>
                      ELSE notify_observers(sessions', event.session_id)
        /\ pending_approvals' = register_writer(pending_approvals, event, c)
        /\ conns' = [cs EXCEPT ![c] =
                        IF response(event) # None
                        THEN writer_write(opened, response(event))
                        ELSE [opened EXCEPT !.status = "closed"]]
        /\ UNCHANGED <<now, ref_sessions, logvars>>

(* A client of the socket sends the event *)
HandleClientEvent(c, event) ==
    /\ handle_client(c, event)
    /\ UNCHANGED runvars

(* HookSocketServer.handle_client resumed after drain(): the finally      *)
(* clause, writer.close().                                                *)
HandleClientClose(c) ==
    LET cs == Released(conns, pending_approvals)
    IN  /\ conns[c].status = "open"
        /\ conns' = [cs EXCEPT ![c].status = "closed"]
        /\ emitted' = <<>>
        /\ UNCHANGED <<sessions, pending_approvals, now, ref_sessions, logvars, runvars>>

(* dict without a key: del d[k] *)
Without(d, k) == [x \in (DOMAIN d) \ {k} |-> d[x]]

(* send_approval_response that gives up when the write fails *)
send_approval_response_gives_up(cs, pa, store, session_id, decision) ==
    IF session_id \notin DOMAIN pa \/ cs[pa[session_id]].status # "open"
    THEN [conns |-> cs, pending_approvals |-> pa, sessions |-> store, cleared |-> FALSE]
    ELSE [conns |-> [cs EXCEPT ![pa[session_id]] =
                        writer_write(@, DecisionFrame(decision))],
          pending_approvals |-> Without(pa, session_id),
          sessions |-> clear_approval(store, session_id),
          cleared |-> session_id \in DOMAIN store]

(* send_approval_response that clears the approval without a writer too *)
send_approval_response_always_clears(cs, pa, store, session_id, decision) ==
    [conns |-> IF session_id \in DOMAIN pa
               THEN [cs EXCEPT ![pa[session_id]] = writer_write(@, DecisionFrame(decision))]
               ELSE cs,
     pending_approvals |-> Without(pa, session_id),
     sessions |-> clear_approval(store, session_id),
     cleared |-> session_id \in DOMAIN store]

(* HookSocketServer.send_approval_response: the connections, the pending  *)
(* hook calls and the store after it.                                     *)
send_approval_response(cs, pa, store, session_id, decision) ==
    IF session_id \notin DOMAIN pa
    THEN [conns |-> cs, pending_approvals |-> pa, sessions |-> store, cleared |-> FALSE]
    ELSE [conns |-> [cs EXCEPT ![pa[session_id]] =
                        writer_write(@, DecisionFrame(decision))],
          pending_approvals |-> Without(pa, session_id),
          sessions |-> clear_approval(store, session_id),
          cleared |-> session_id \in DOMAIN store]

(* ClaudeIslandDBusService._handle_method_call("SendApprovalDecision") -> *)
(* _send_approval_decision -> HookSocketServer.send_approval_response     *)
approval_decision(session_id, decision) ==
    LET r == send_approval_response(Released(conns, pending_approvals),
                                    pending_approvals, sessions, session_id, decision)
    IN  /\ conns' = r.conns
        /\ pending_approvals' = r.pending_approvals
        /\ sessions' = r.sessions
        /\ emitted' = IF r.cleared THEN notify_observers(sessions', session_id) ELSE <<>>
        /\ UNCHANGED <<now, ref_sessions, logvars>>

(* SendApprovalDecision called by any client of the bus *)
SendApprovalDecision(session_id, decision) ==
    /\ approval_decision(session_id, decision)
    /\ UNCHANGED runvars

(* SessionStore.add_message, as the file monitor calls it per log record *)
AddMessage(session_id, message) ==
    /\ ConversationWithin(add_message(sessions, session_id, message), MaxConversation)
    /\ sessions' = add_message(sessions, session_id, message)
    /\ emitted' = IF session_id \in DOMAIN sessions
                  THEN notify_observers(sessions', session_id)
                  ELSE <<>>
    /\ UNCHANGED <<pending_approvals, conns, now, ref_sessions, logvars, runvars>>

(* The hook events of the system specification: every kind for the        *)
(* session s1, and events without session_id.                             *)
NoSessionEvents ==
    [type : {"PermissionRequest"}, session_id : {Absent}, tool_name : {"Bash"},
     parameters : ParamValues, result : {Absent}]
    \cup PlainEvents({Absent, ""}, {"SessionStart"})

SocketEvents == HookEvents({"s1"}, ToolNames, ParamValues) \cup NoSessionEvents

Next ==
    \/ \E c \in ConnIds : HandleClientMalformed(c)
    \/ \E c \in ConnIds : \E event \in SocketEvents : HandleClientEvent(c, event)
    \/ \E c \in ConnIds : HandleClientClose(c)
    \/ \E s \in SessionIds : \E d \in Decisions : SendApprovalDecision(s, d)
    \/ \E m \in Messages : AddMessage("s1", m)

Spec == Init /\ [][Next]_vars

---------------------------------------------------------------------------
(* The system with the passage of time.  Nothing in the server is driven  *)
(* by the clock: HookSocketServer starts no timer.                        *)

Tick ==
    /\ now < MaxClock
    /\ now' = now + 1
    /\ UNCHANGED <<sessions, pending_approvals, conns, emitted, ref_sessions, logvars, runvars>>

NextTimed == Next \/ Tick

SpecTimed == Init /\ [][NextTimed]_vars

---------------------------------------------------------------------------
(* The reducer alone: SessionStore.process_event called with hook events  *)
(* of every kind, with their keys or with tool_name and parameters        *)
(* missing, for two sessions.  ref_sessions is the store that is given    *)
(* the same events without the unrecognized ones.                         *)

ReducerEvents ==
    HookEvents({"s1"}, ToolNames, ParamValues)
        \cup ToolEvents({"s1"}, {Absent}, {Absent})
        \cup [type : {"PermissionRequest"}, session_id : {"s2"}, tool_name : {"Bash"},
              parameters : ParamValues, result : {Absent}]
        \cup PlainEvents({"s2"}, {"SessionStart"} \cup UnknownTypes)

ProcessKnownEvent(event) ==
    /\ event.type \in KnownTypes
    /\ WithinBounds(process_event(sessions, event, now))
    /\ sessions' = process_event(sessions, event, now)
    /\ ref_sessions' = process_event(ref_sessions, event, now)
    /\ emitted' = notify_observers(sessions', event.session_id)
    /\ UNCHANGED <<pending_approvals, conns, now, logvars, runvars>>

ProcessUnknownEvent(event) ==
    /\ event.type \notin KnownTypes
    /\ sessions' = process_event(sessions, event, now)
    /\ emitted' = notify_observers(sessions', event.session_id)
    /\ UNCHANGED <<pending_approvals, conns, now, ref_sessions, logvars, runvars>>

NextReducer ==
    \/ \E event \in ReducerEvents : ProcessKnownEvent(event)
    \/ \E event \in ReducerEvents : ProcessUnknownEvent(event)

SpecReducer == Init /\ [][NextReducer]_vars

(* The hook events of the retention specification *)
RetentionEvents ==
    ToolEvents({"s1"}, {"Bash"}, ParamValues)
        \cup PlainEvents({"s1"}, {"SessionStart", "SessionEnd"})

(* The socket server with log messages: sessions that end with history *)
NextRetention ==
    \/ \E c \in ConnIds : \E event \in RetentionEvents : HandleClientEvent(c, event)
    \/ \E c \in ConnIds : HandleClientClose(c)
    \/ \E m \in Messages : AddMessage("s1", m)

SpecRetention == Init /\ [][NextRetention]_vars

(* The hook events of the decision specification *)
DecisionEvents == HookEvents({"s1"}, {"Bash"}, ParamValues)

(* Permission requests, their connections and the frontend's decisions *)
NextDecision ==
    \/ \E c \in ConnIds : \E event \in DecisionEvents : HandleClientEvent(c, event)
    \/ \E c \in ConnIds : HandleClientClose(c)
    \/ \E s \in SessionIds : \E d \in Decisions : SendApprovalDecision(s, d)

SpecDecision == Init /\ [][NextDecision]_vars

(* The hook socket server alone: no frontend decision, no log message *)
NextSocket ==
    \/ \E c \in ConnIds : HandleClientMalformed(c)
    \/ \E c \in ConnIds : \E event \in SocketEvents : HandleClientEvent(c, event)
    \/ \E c \in ConnIds : HandleClientClose(c)

SpecSocket == Init /\ [][NextSocket]_vars

---------------------------------------------------------------------------
(* The conversation log of session s1 and the file monitor.  The text of  *)
(* the file is a sequence of pieces: a record is written as two halves    *)
(* followed by a newline, and offsets count pieces.                       *)

LogRecords == {"m1", "clear"}

Half(r, h) == [record |-> r, half |-> h]

Newline == [record |-> "newline", half |-> 0]

Line(r) == <<Half(r, 1), Half(r, 2), Newline>>

(* The message a complete record decodes to *)
LogMessage(r) ==
    IF r = "clear" THEN [type |-> "user", content |-> "/clear"]
    ELSE [type |-> "assistant", content |-> r]

(* for line in f: the newline-terminated lines of the text, and the       *)
(* unterminated rest of it as the last line.                              *)
RECURSIVE read_lines(_, _)
read_lines(text, line) ==
    IF text = <<>>
    THEN IF line = <<>> THEN <<>> ELSE <<line>>
    ELSE IF Head(text) = Newline
         THEN <<line>> \o read_lines(Tail(text), <<>>)
         ELSE read_lines(Tail(text), Append(line, Head(text)))

(* json.loads of a stripped line: None stands for JSONDecodeError and for *)
(* the empty line that is skipped.                                        *)
json_loads(line) ==
    IF Len(line) = 2 /\ line[1].half = 1 /\ line[2] = Half(line[1].record, 2)
    THEN LogMessage(line[1].record)
    ELSE None

Decoded(message) == message # None

Reversed(seq) == [i \in 1..Len(seq) |-> seq[Len(seq) + 1 - i]]

(* parse_incremental that returns the new messages last line first *)
parse_incremental_reversed(file, last_position) ==
    IF ~file.exists
    THEN [messages |-> <<>>, last_position |-> last_position]
    ELSE LET text == file.text
             lines == read_lines(SubSeq(text, last_position + 1, Len(text)), <<>>)
         IN  [messages |-> Reversed(SelectSeq([i \in 1..Len(lines) |-> json_loads(lines[i])],
                                              Decoded)),
              last_position |-> IF last_position > Len(text)
                                THEN last_position ELSE Len(text)]

(* The messages in front of the first line that does not decode *)
RECURSIVE UntilUndecoded(_)
UntilUndecoded(messages) ==
    IF messages = <<>> \/ Head(messages) = None THEN <<>>
    ELSE <<Head(messages)>> \o UntilUndecoded(Tail(messages))

(* parse_incremental that gives up at the first line that does not        *)
(* decode: the rest of the file is not read and last_position stays.      *)
parse_incremental_aborts(file, last_position) ==
    IF ~file.exists
    THEN [messages |-> <<>>, last_position |-> last_position]
    ELSE LET text == file.text
             lines == read_lines(SubSeq(text, last_position + 1, Len(text)), <<>>)
             decoded == [i \in 1..Len(lines) |-> json_loads(lines[i])]
         IN  [messages |-> UntilUndecoded(decoded),
              last_position |-> IF last_position > Len(text) \/ \E i \in 1..Len(decoded) : decoded[i] = None
                                THEN last_position ELSE Len(text)]

(* ConversationParser.parse_incremental: the new messages and the         *)
(* last_position it leaves.  A seek behind the end of the file reads      *)
(* nothing and tell() answers the position of the seek.                   *)
parse_incremental(file, last_position) ==
    IF ~file.exists
    THEN [messages |-> <<>>, last_position |-> last_position]
    ELSE LET text == file.text
             lines == read_lines(SubSeq(text, last_position + 1, Len(text)), <<>>)
         IN  [messages |-> SelectSeq([i \in 1..Len(lines) |-> json_loads(lines[i])],
                                     Decoded),
              last_position |-> IF last_position > Len(text)
                                THEN last_position ELSE Len(text)]

(* ConversationParser.parse_full *)
parse_full(file) == parse_incremental(file, 0)

(* detect_clear_command *)
detect_clear_command(messages) ==
    \E i \in 1..Len(messages) :
        messages[i].type = "user" /\ messages[i].content = "/clear"

(* for message in messages: session_store.add_message(session_id, message) *)
RECURSIVE add_messages(_, _, _)
add_messages(store, session_id, messages) ==
    IF messages = <<>> THEN store
    ELSE add_messages(add_message(store, session_id, Head(messages)),
                      session_id, Tail(messages))

(* The signals of those add_message calls *)
RECURSIVE add_messages_notified(_, _, _)
add_messages_notified(store, session_id, messages) ==
    IF messages = <<>> \/ session_id \notin DOMAIN store THEN <<>>
    ELSE LET added == add_message(store, session_id, Head(messages))
         IN  notify_observers(added, session_id)
                 \o add_messages_notified(added, session_id, Tail(messages))

(* session.conversation.clear() of on_modified *)
clear_conversation(store, session_id) ==
    IF session_id \in DOMAIN store
    THEN [store EXCEPT ![session_id].conversation = <<>>]
    ELSE store

(* The watcher reports a change of the path once the observer runs *)
Reported(kind) ==
    IF started THEN [watch EXCEPT ![kind] = TRUE] ELSE watch

(* The assistant creates the empty log of the session *)
CreateLog ==
    /\ ~log.exists
    /\ log' = [exists |-> TRUE, text |-> <<>>]
    /\ watch' = Reported("created")
    /\ emitted' = <<>>
    /\ UNCHANGED <<sessions, pending_approvals, conns, now, ref_sessions,
                   parsers, debounce_times, started, runvars>>

EndsInPartialLine(file) ==
    file.exists /\ file.text # <<>> /\ file.text[Len(file.text)] # Newline

(* The assistant appends a whole record in one write *)
WriteLine(r) ==
    /\ log.exists
    /\ ~EndsInPartialLine(log)
    /\ Len(log.text) + 3 <= 3 * MaxLogLines
    /\ log' = [log EXCEPT !.text = @ \o Line(r)]
    /\ watch' = Reported("modified")
    /\ emitted' = <<>>
    /\ UNCHANGED <<sessions, pending_approvals, conns, now, ref_sessions,
                   parsers, debounce_times, started, runvars>>

(* The assistant's write of a record reaches the file in two parts: the   *)
(* first part                                                             *)
WritePartial(r) ==
    /\ log.exists
    /\ ~EndsInPartialLine(log)
    /\ Len(log.text) + 3 <= 3 * MaxLogLines
    /\ log' = [log EXCEPT !.text = Append(@, Half(r, 1))]
    /\ watch' = Reported("modified")
    /\ emitted' = <<>>
    /\ UNCHANGED <<sessions, pending_approvals, conns, now, ref_sessions,
                   parsers, debounce_times, started, runvars>>

(* and the rest of the record with its newline *)
WriteRest ==
    /\ EndsInPartialLine(log)
    /\ log' = [log EXCEPT !.text = @ \o <<Half(@[Len(@)].record, 2), Newline>>]
    /\ watch' = Reported("modified")
    /\ emitted' = <<>>
    /\ UNCHANGED <<sessions, pending_approvals, conns, now, ref_sessions,
                   parsers, debounce_times, started, runvars>>

(* The log is truncated to nothing *)
Truncate ==
    /\ log.exists
    /\ log.text # <<>>
    /\ log' = [log EXCEPT !.text = <<>>]
    /\ watch' = Reported("modified")
    /\ emitted' = <<>>
    /\ UNCHANGED <<sessions, pending_approvals, conns, now, ref_sessions,
                   parsers, debounce_times, started, runvars>>

(* FileMonitor.start: the observer is started and the existing sessions   *)
(* are scanned (_scan_existing_sessions).                                 *)
Start ==
    /\ ~started
    /\ started' = TRUE
    /\ IF ~log.exists
       THEN UNCHANGED <<sessions, parsers>> /\ emitted' = <<>>
       ELSE /\ parsers' = ("s1" :> parse_full(log).last_position) @@ parsers
            /\ sessions' = add_messages(sessions, "s1", parse_full(log).messages)
            /\ emitted' = add_messages_notified(sessions, "s1", parse_full(log).messages)
            /\ ConversationWithin(sessions', MaxLogConversation)
    /\ UNCHANGED <<pending_approvals, conns, now, ref_sessions,
                   log, debounce_times, watch, runvars>>

(* ConversationFileHandler.on_created for s1/conversation.jsonl *)
OnCreated ==
    /\ started
    /\ watch.created
    /\ watch' = [watch EXCEPT !.created = FALSE]
    /\ parsers' = ("s1" :> parse_full(log).last_position) @@ parsers
    /\ sessions' = add_messages(sessions, "s1", parse_full(log).messages)
    /\ emitted' = add_messages_notified(sessions, "s1", parse_full(log).messages)
    /\ ConversationWithin(sessions', MaxLogConversation)
    /\ UNCHANGED <<pending_approvals, conns, now, ref_sessions,
                   log, debounce_times, started, runvars>>

(* The poll of on_modified (lines 47-73): the parsers, the store and the  *)
(* signals after it.                                                      *)
poll(ps, store, file, session_id) ==
    LET position == IF session_id \in DOMAIN ps THEN ps[session_id] ELSE 0
        parsed == parse_incremental(file, position)
        clear == detect_clear_command(parsed.messages)
        kept == IF clear THEN clear_conversation(store, session_id) ELSE store
    IN  [parsers |-> (session_id :> IF clear THEN 0 ELSE parsed.last_position) @@ ps,
         sessions |-> add_messages(kept, session_id, parsed.messages),
         emitted |-> add_messages_notified(kept, session_id, parsed.messages),
         new_messages |-> parsed.messages]

(* FileMonitor.start up to observer.start() (lines 108-123): the watchdog *)
(* thread delivers events from here on, the scan has not run yet.         *)
ObserverStart ==
    /\ ~started
    /\ started' = TRUE
    /\ scan_pending' = TRUE
    /\ emitted' = <<>>
    /\ UNCHANGED <<polling, reader_view, sessions, pending_approvals, conns,
                   now, ref_sessions,
                   log, parsers, debounce_times, watch,
                   server, main_call, watcher_call, applied, seen, obsvars, clientvars>>

(* FileMonitor._scan_existing_sessions (line 126), on the main thread *)
ScanExistingSessions ==
    /\ scan_pending
    /\ scan_pending' = FALSE
    /\ IF ~log.exists
       THEN UNCHANGED <<sessions, parsers>> /\ emitted' = <<>>
       ELSE /\ parsers' = ("s1" :> parse_full(log).last_position) @@ parsers
            /\ sessions' = add_messages(sessions, "s1", parse_full(log).messages)
            /\ emitted' = add_messages_notified(sessions, "s1", parse_full(log).messages)
            /\ ConversationWithin(sessions', MaxLogConversation)
    /\ UNCHANGED <<pending_approvals, conns, now, ref_sessions,
                   log, debounce_times, watch, started, polling, reader_view,
                   server, main_call, watcher_call, applied, seen, obsvars, clientvars>>

(* The session logs the monitor sees: the log of s1, and the log of a     *)
(* second session s2 that exists and stays empty.                         *)
Paths == {"s1", "s2"}

LogOf(path) == IF path = "s1" THEN log ELSE [exists |-> TRUE, text |-> <<>>]

(* a debounce that any recent poll triggers, whatever its path *)
debounced_any_path(times, path) == times # {}

(* now - self.debounce_times.get(event.src_path, 0) < self.debounce_delay *)
debounced(times, path) == path \in times

(* ConversationFileHandler.on_modified for <path>/conversation.jsonl: a   *)
(* reported change of the log of s1, or a change of the log of s2.        *)
OnModified(path) ==
    /\ started
    /\ IF path = "s1"
       THEN watch.modified /\ watch' = [watch EXCEPT !.modified = FALSE]
       ELSE UNCHANGED watch
    /\ IF debounced(debounce_times, path)
       THEN /\ UNCHANGED <<sessions, parsers, debounce_times>>
            /\ emitted' = <<>>
       ELSE /\ debounce_times' = debounce_times \cup {path}
            /\ parsers' = poll(parsers, sessions, LogOf(path), path).parsers
            /\ sessions' = poll(parsers, sessions, LogOf(path), path).sessions
            /\ emitted' = poll(parsers, sessions, LogOf(path), path).emitted
            /\ ConversationWithin(sessions', MaxLogConversation)
    /\ UNCHANGED <<pending_approvals, conns, now, ref_sessions, log, started, runvars>>

(* debounce_delay passes since the last poll of the path *)
DebounceElapses ==
    /\ \E path \in debounce_times : debounce_times' = debounce_times \ {path}
    /\ emitted' = <<>>
    /\ UNCHANGED <<sessions, pending_approvals, conns, now, ref_sessions,
                   log, parsers, watch, started, runvars>>

(* The hook events of the log specification *)
LogEvents == PlainEvents({"s1"}, {"SessionStart"})

NextLog ==
    \/ \E event \in LogEvents : ProcessKnownEvent(event)
    \/ CreateLog
    \/ \E r \in LogRecords : WriteLine(r)
    \/ \E r \in LogRecords : WritePartial(r)
    \/ WriteRest
    \/ Truncate
    \/ Start
    \/ OnCreated
    \/ OnModified("s1")
    \/ DebounceElapses

SpecLog == Init /\ [][NextLog]_vars

(* The monitor with the logs of two sessions *)
NextDebounce ==
    \/ NextLog
    \/ OnModified("s2")

SpecDebounce == Init /\ [][NextDebounce]_vars

(* The monitor whose start is two steps, over a log that is only         *)
(* appended to, whole records at a time, and holds no reset marker.  The  *)
(* watchdog thread delivers the events of a path in the order they were   *)
(* reported: created before modified.                                     *)
NextScan ==
    \/ \E event \in LogEvents : ProcessKnownEvent(event)
    \/ CreateLog
    \/ \E r \in LogRecords \ {"clear"} : WriteLine(r)
    \/ ObserverStart
    \/ ScanExistingSessions
    \/ OnCreated
    \/ ~watch.created /\ OnModified("s1")
    \/ DebounceElapses

SpecScan == Init /\ [][NextScan]_vars

---------------------------------------------------------------------------
(* on_modified on the watchdog thread, step by step, and a frontend that  *)
(* reads the conversation on the main thread in between: the store has no *)
(* lock.                                                                  *)

ConversationOf(store, session_id) ==
    IF session_id \in DOMAIN store THEN store[session_id].conversation ELSE <<>>

(* on_modified of the log of s1 up to the loop of line 72: the debounce,  *)
(* parse_incremental, and for a batch with /clear parser.reset() and      *)
(* session.conversation.clear().                                          *)
PollBegin ==
    LET position == IF "s1" \in DOMAIN parsers THEN parsers["s1"] ELSE 0
        parsed == parse_incremental(log, position)
        clear == detect_clear_command(parsed.messages)
        done == poll(parsers, sessions, log, "s1")
    IN  /\ started
        /\ polling = None
        /\ watch.modified
        /\ ~debounced(debounce_times, "s1")
        /\ ConversationWithin(done.sessions, MaxLogConversation)
        /\ watch' = [watch EXCEPT !.modified = FALSE]
        /\ debounce_times' = debounce_times \cup {"s1"}
        /\ parsers' = done.parsers
        /\ sessions' = IF clear THEN clear_conversation(sessions, "s1") ELSE sessions
        /\ polling' = IF parsed.messages = <<>> THEN None
                      ELSE [clear |-> clear,
                            known |-> "s1" \in DOMAIN sessions,
                            before |-> ConversationOf(sessions, "s1"),
                            after |-> ConversationOf(done.sessions, "s1"),
                            rest |-> parsed.messages]
        /\ emitted' = <<>>
        /\ UNCHANGED <<pending_approvals, conns, now, ref_sessions, log, started,
                       server, main_call, watcher_call, applied, seen, obsvars,
                       clientvars, scan_pending, reader_view>>

(* One turn of the loop of lines 72-73: add_message of the next message   *)
PollAdd ==
    /\ polling # None
    /\ sessions' = add_message(sessions, "s1", Head(polling.rest))
    /\ emitted' = IF "s1" \in DOMAIN sessions
                  THEN notify_observers(sessions', "s1") ELSE <<>>
    /\ polling' = IF Tail(polling.rest) = <<>> THEN None
                  ELSE [polling EXCEPT !.rest = Tail(@)]
    /\ UNCHANGED <<pending_approvals, conns, now, ref_sessions, logvars,
                   server, main_call, watcher_call, applied, seen, obsvars,
                   clientvars, scan_pending, reader_view>>

(* ClaudeIslandDBusService._get_conversation: type and content of each    *)
(* message of the session as it is now, [] for an unknown session         *)
get_conversation(store, session_id) ==
    LET conversation == ConversationOf(store, session_id)
    IN  [i \in 1..Len(conversation) |->
            [type |-> conversation[i].type, content |-> conversation[i].content]]

(* GetConversation called by the frontend *)
GetConversation(session_id) ==
    /\ reader_view' = [messages |-> get_conversation(sessions, session_id),
                       during |-> polling]
    /\ emitted' = <<>>
    /\ UNCHANGED <<sessions, pending_approvals, conns, now, ref_sessions, logvars,
                   server, main_call, watcher_call, applied, seen, obsvars,
                   clientvars, scan_pending, polling>>

NextReader ==
    \/ \E event \in LogEvents : ProcessKnownEvent(event)
    \/ CreateLog
    \/ \E r \in LogRecords : WriteLine(r)
    \/ Start
    \/ OnCreated
    \/ PollBegin
    \/ PollAdd
    \/ DebounceElapses
    \/ GetConversation("s1")

SpecReader == Init /\ [][NextReader]_vars

(* The monitor of the log of a session the store holds: records are       *)
(* appended whole, the log is not truncated and holds no reset marker,    *)
(* and created is delivered before modified.                              *)
DrainRecords == {"m1", "m2"}

NextDrain ==
    \/ \E event \in LogEvents : ProcessKnownEvent(event)
    \/ CreateLog
    \/ \E r \in DrainRecords : "s1" \in DOMAIN sessions /\ WriteLine(r)
    \/ Start
    \/ OnCreated
    \/ ~watch.created /\ OnModified("s1")
    \/ DebounceElapses

SpecDrain == Init /\ [][NextDrain]_vars

---------------------------------------------------------------------------
(* The monitor started over a log that holds malformed lines *)

MaxTailLines == 3

TailRecords == {"m1", "m2"}

(* A line that is not valid JSON: a record cut short, and the newline *)
BadLine(r) == <<Half(r, 1), Newline>>

TailLines == {Line(r) : r \in TailRecords} \cup {BadLine("m1")}

(* The logs of at most n lines *)
RECURSIVE TailTexts(_)
TailTexts(n) ==
    IF n = 0 THEN {<<>>}
    ELSE TailTexts(n - 1) \cup {text \o line : text \in TailTexts(n - 1), line \in TailLines}

(* The service is started while conversation.jsonl of s1 is on disk *)
InitTail ==
    /\ sessions = <<>>
    /\ pending_approvals = <<>>
    /\ conns = [c \in ConnIds |-> FreshConn]
    /\ emitted = <<>>
    /\ now = 0
    /\ ref_sessions = <<>>
    /\ log \in {[exists |-> TRUE, text |-> text] : text \in TailTexts(MaxTailLines)}
    /\ parsers = <<>>
    /\ debounce_times = {}
    /\ watch = [created |-> FALSE, modified |-> FALSE]
    /\ started = FALSE
    /\ server = "listening"
    /\ main_call = None
    /\ watcher_call = None
    /\ applied = <<>>
    /\ seen = <<>>
    /\ InitObservers

NextTail ==
    \/ \E event \in LogEvents : ProcessKnownEvent(event)
    \/ \E r \in TailRecords : WriteLine(r)
    \/ Start
    \/ OnModified("s1")
    \/ DebounceElapses

SpecTail == InitTail /\ [][NextTail]_vars

---------------------------------------------------------------------------
(* Shutdown: the signal handler of main *)

(* signal_handler: file_monitor.stop(), socket_server.stop() - the        *)
(* listening server is closed and the socket file removed - and           *)
(* sys.exit(0), with which the connections still open are closed by the   *)
(* operating system.  Nothing is written on them and pending_approvals is *)
(* not touched.                                                           *)
Stop ==
    /\ server = "listening"
    /\ server' = "closed"
    /\ conns' = [c \in ConnIds |->
                    IF conns[c].status = "open"
                    THEN [conns[c] EXCEPT !.status = "closed"]
                    ELSE conns[c]]
    /\ emitted' = <<>>
    /\ UNCHANGED <<monitorvars, sessions, pending_approvals, now,
                   ref_sessions, logvars, obsvars, clientvars,
                   main_call, watcher_call, applied, seen>>

(* The socket server until the service is stopped *)
NextShutdown ==
    \/ \E c \in ConnIds : server = "listening" /\ HandleClientMalformed(c)
    \/ \E c \in ConnIds : \E event \in SocketEvents :
          server = "listening" /\ HandleClientEvent(c, event)
    \/ \E c \in ConnIds : server = "listening" /\ HandleClientClose(c)
    \/ Stop

SpecShutdown == Init /\ [][NextShutdown]_vars

---------------------------------------------------------------------------
(* The two threads that call the store.  process_event runs on the main   *)
(* thread, add_message on the thread of the watchdog observer; the store  *)
(* has no lock, so the threads interleave between the change of a session *)
(* and notify_observers, and inside the observer.                         *)

ThreadEvents == PlainEvents({"s1"}, {"SessionStart", "UserPromptSubmit"})

Call(session_id, change, stage) ==
    [session_id |-> session_id, change |-> change, stage |-> stage]

InStage(call, stage) == call # None /\ call.stage = stage

(* SessionStore.process_event up to notify_observers (lines 62-100) *)
MainApply(event) ==
    /\ main_call = None
    /\ Len(applied) < MaxChanges
    /\ sessions' = process_event(sessions, event, now)
    /\ applied' = Append(applied, sessions'[event.session_id])
    /\ main_call' = Call(event.session_id, Len(applied'), "changed")
    /\ emitted' = <<>>
    /\ UNCHANGED <<monitorvars, pending_approvals, conns, now, ref_sessions,
                   logvars, obsvars, clientvars,
                   server, watcher_call, seen>>

(* notify_observers on the main thread: observer(session) is called and   *)
(* reads the session as it is now.                                        *)
MainNotify ==
    /\ InStage(main_call, "changed")
    /\ seen' = Append(seen, [change |-> main_call.change,
                             session |-> sessions[main_call.session_id]])
    /\ emitted' = notify_observers(sessions, main_call.session_id)
    /\ main_call' = [main_call EXCEPT !.stage = "notifying"]
    /\ UNCHANGED <<monitorvars, sessions, pending_approvals, conns, now,
                   ref_sessions, logvars, obsvars, clientvars,
                   server, watcher_call, applied>>

(* The observer returns and process_event with it *)
MainReturn ==
    /\ InStage(main_call, "notifying")
    /\ main_call' = None
    /\ emitted' = <<>>
    /\ UNCHANGED <<monitorvars, sessions, pending_approvals, conns, now,
                   ref_sessions, logvars, obsvars, clientvars,
                   server, watcher_call, applied, seen>>

(* SessionStore.add_message up to notify_observers (lines 180-192), for a *)
(* session the store holds                                                *)
WatcherApply(message) ==
    /\ watcher_call = None
    /\ Len(applied) < MaxChanges
    /\ "s1" \in DOMAIN sessions
    /\ sessions' = add_message(sessions, "s1", message)
    /\ applied' = Append(applied, sessions'["s1"])
    /\ watcher_call' = Call("s1", Len(applied'), "changed")
    /\ emitted' = <<>>
    /\ UNCHANGED <<monitorvars, pending_approvals, conns, now, ref_sessions,
                   logvars, obsvars, clientvars,
                   server, main_call, seen>>

(* notify_observers on the watchdog thread *)
WatcherNotify ==
    /\ InStage(watcher_call, "changed")
    /\ seen' = Append(seen, [change |-> watcher_call.change,
                             session |-> sessions[watcher_call.session_id]])
    /\ emitted' = notify_observers(sessions, watcher_call.session_id)
    /\ watcher_call' = [watcher_call EXCEPT !.stage = "notifying"]
    /\ UNCHANGED <<monitorvars, sessions, pending_approvals, conns, now,
                   ref_sessions, logvars, obsvars, clientvars,
                   server, main_call, applied>>

(* The observer returns and add_message with it *)
WatcherReturn ==
    /\ InStage(watcher_call, "notifying")
    /\ watcher_call' = None
    /\ emitted' = <<>>
    /\ UNCHANGED <<monitorvars, sessions, pending_approvals, conns, now,
                   ref_sessions, logvars, obsvars, clientvars,
                   server, main_call, applied, seen>>

NextThreads ==
    \/ \E event \in ThreadEvents : MainApply(event)
    \/ MainNotify
    \/ MainReturn
    \/ \E message \in Messages : WatcherApply(message)
    \/ WatcherNotify
    \/ WatcherReturn

SpecThreads == Init /\ [][NextThreads]_vars

---------------------------------------------------------------------------
(* The applet (indicator.py) as the frontend of the hook socket server.   *)
(* A PermissionRequest signal opens a dialog for its session and tool;    *)
(* the answer of the dialog is sent as SendApprovalDecision(session_id,   *)
(* decision).                                                             *)

Dialog(signal) == [session_id |-> signal.session_id, tool_name |-> signal.tool_name]

(* ClaudeIslandIndicator.on_permission_request up to dialog.run(), for a  *)
(* PermissionRequest signal of the last operation of the service          *)
OnPermissionRequest ==
    /\ \E i \in 1..Len(emitted) :
          /\ emitted[i].signal = "PermissionRequest"
          /\ Dialog(emitted[i]) \notin dialogs
          /\ dialogs' = dialogs \cup {Dialog(emitted[i])}
    /\ UNCHANGED <<monitorvars, sessions, pending_approvals, conns, emitted,
                   now, ref_sessions, logvars,
                   server, main_call, watcher_call, applied, seen, obsvars,
                   receiving, printed>>

(* on_permission_request from the answer of the dialog on (lines 198-207) *)
DialogResponse(dialog, decision) ==
    /\ dialog \in dialogs
    /\ dialogs' = dialogs \ {dialog}
    /\ approval_decision(dialog.session_id, decision)
    /\ UNCHANGED <<monitorvars, server, main_call, watcher_call, applied,
                   seen, obsvars,
                   receiving, printed>>

FrontendEvents ==
    [type : {"PermissionRequest"}, session_id : {"s1"}, tool_name : ToolNames,
     parameters : ParamValues, result : {Absent}]
        \cup PlainEvents({"s1"}, {"Notification"})

Dialogs == [session_id : SessionIds, tool_name : ToolNames]

NextFrontend ==
    \/ \E c \in ConnIds : \E event \in FrontendEvents : HandleClientEvent(c, event)
    \/ \E c \in ConnIds : HandleClientClose(c)
    \/ OnPermissionRequest
    \/ \E dialog \in Dialogs : \E decision \in Decisions : DialogResponse(dialog, decision)

SpecFrontend == Init /\ [][NextFrontend]_vars

---------------------------------------------------------------------------
(* The hook script (claude-island-state.py) as the client of the socket.  *)
(* The frames of a connection are in the model while the server refers to *)
(* its writer; the script reads while they are.                           *)

DenyFrame(reason) == [decision |-> "deny", reason |-> reason]

(* send_event from recv on (lines 84-91), and what main prints for it     *)
(* (lines 123-129): recv returns what has arrived; one frame is decoded   *)
(* and returned, frames that arrived together are not one JSON document   *)
(* (json.loads raises, line 100), and for no data None is returned.       *)
hook_output(frames) ==
    IF frames = <<>> THEN DenyFrame("No response from backend")
    ELSE IF Len(frames) = 1 THEN frames[1]
    ELSE DenyFrame("Extra data")

(* send_event up to recv (lines 74-83) and handle_client of the server    *)
(* for it; the script of any other event than PermissionRequest closes    *)
(* and prints nothing.                                                    *)
HookSends(c, event) ==
    /\ server = "listening"
    /\ handle_client(c, event)
    /\ receiving' = IF event.type = "PermissionRequest"
                    THEN receiving \cup {c} ELSE receiving \ {c}
    /\ UNCHANGED <<monitorvars, server, main_call, watcher_call, applied,
                   seen, obsvars,
                   dialogs, printed>>

(* recv returns in the script of a PermissionRequest, and main prints *)
HookReceives(c) ==
    /\ c \in receiving
    /\ conns[c].frames # <<>>
    /\ receiving' = receiving \ {c}
    /\ printed' = hook_output(conns[c].frames)
    /\ emitted' = <<>>
    /\ UNCHANGED <<monitorvars, sessions, pending_approvals, conns, now,
                   ref_sessions, logvars,
                   server, main_call, watcher_call, applied, seen, obsvars, dialogs>>

(* send_event for a PermissionRequest when the service was stopped:       *)
(* connect raises FileNotFoundError (line 96)                             *)
HookFindsNoBackend ==
    /\ server = "closed"
    /\ printed' = DenyFrame("Backend not running")
    /\ emitted' = <<>>
    /\ UNCHANGED <<monitorvars, sessions, pending_approvals, conns, now,
                   ref_sessions, logvars,
                   server, main_call, watcher_call, applied, seen, obsvars,
                   dialogs, receiving>>

HookEventsSent ==
    [type : {"PermissionRequest"}, session_id : {"s1"}, tool_name : ToolNames,
     parameters : ParamValues, result : {Absent}]
        \cup PlainEvents({"s1"}, {"SessionStart"})

NextHook ==
    \/ \E c \in ConnIds : \E event \in HookEventsSent : HookSends(c, event)
    \/ \E c \in ConnIds : HookReceives(c)
    \/ \E c \in ConnIds : server = "listening" /\ HandleClientClose(c)
    \/ \E s \in SessionIds : \E d \in Decisions : SendApprovalDecision(s, d)
    \/ Stop
    \/ HookFindsNoBackend

SpecHook == Init /\ [][NextHook]_vars

---------------------------------------------------------------------------
(* The store and its observers.  Any callable can be appended to          *)
(* SessionStore.observers; a call of an observer returns or raises.       *)

MaxObservers == 3

ObserverKinds == {"dbus", "callback"}

(* notify_observers that lets the exception of an observer out: the loop  *)
(* ends at the first observer that raises.                                *)
RECURSIVE notify_each_unguarded(_, _, _)
notify_each_unguarded(obs, raises, i) ==
    IF i > Len(obs)
    THEN [notified |-> <<>>, logged |-> {}, returned |-> TRUE]
    ELSE IF i \in raises
         THEN [notified |-> <<i>>, logged |-> {}, returned |-> FALSE]
         ELSE LET rest == notify_each_unguarded(obs, raises, i + 1)
              IN  [rest EXCEPT !.notified = <<i>> \o @]

(* SessionStore.notify_observers from the i-th observer on: observer(     *)
(* session) is called in a try, and an exception is logged (lines 217-221) *)
RECURSIVE notify_each(_, _, _)
notify_each(obs, raises, i) ==
    IF i > Len(obs)
    THEN [notified |-> <<>>, logged |-> {}, returned |-> TRUE]
    ELSE LET rest == notify_each(obs, raises, i + 1)
         IN  [notified |-> <<i>> \o rest.notified,
              logged |-> (IF i \in raises THEN {i} ELSE {}) \cup rest.logged,
              returned |-> rest.returned]

(* The signals of the observers of the service that were called and did   *)
(* not raise                                                              *)
RECURSIVE signals_of(_, _, _, _)
signals_of(obs, called, raises, session_signals) ==
    IF called = <<>> THEN <<>>
    ELSE (IF obs[Head(called)] = "dbus" /\ Head(called) \notin raises
          THEN session_signals ELSE <<>>)
             \o signals_of(obs, Tail(called), raises, session_signals)

(* session_store.observers.append(callback) *)
ObserversAppend(kind) ==
    /\ Len(observers) < MaxObservers
    /\ observers' = Append(observers, kind)
    /\ emitted' = <<>>
    /\ UNCHANGED <<monitorvars, sessions, pending_approvals, conns, now,
                   ref_sessions, logvars,
                   server, main_call, watcher_call, applied, seen,
                   notified, logged, returned, clientvars>>

(* The end of a store call on the session: notify_observers(session),     *)
(* with the observers in raises raising.                                  *)
Notifies(session_id, raises) ==
    LET r == notify_each(observers, raises, 1)
    IN  /\ notified' = r.notified
        /\ logged' = r.logged
        /\ returned' = r.returned
        /\ emitted' = signals_of(observers, r.notified, raises,
                                 on_session_changed(session_id, sessions'[session_id]))
        /\ UNCHANGED <<monitorvars, pending_approvals, conns, now,
                       ref_sessions, logvars,
                       server, main_call, watcher_call, applied, seen, observers,
                       clientvars>>

(* SessionStore.process_event *)
StoreProcessEvent(event, raises) ==
    /\ WithinBounds(process_event(sessions, event, now))
    /\ sessions' = process_event(sessions, event, now)
    /\ Notifies(event.session_id, raises)

(* SessionStore.add_message for a session the store holds *)
StoreAddMessage(session_id, message, raises) ==
    /\ session_id \in DOMAIN sessions
    /\ ConversationWithin(add_message(sessions, session_id, message), MaxConversation)
    /\ sessions' = add_message(sessions, session_id, message)
    /\ Notifies(session_id, raises)

(* SessionStore.clear_approval for a session the store holds *)
StoreClearApproval(session_id, raises) ==
    /\ session_id \in DOMAIN sessions
    /\ sessions' = clear_approval(sessions, session_id)
    /\ Notifies(session_id, raises)

ObserverEvents ==
    PlainEvents({"s1"}, {"SessionStart", "UserPromptSubmit"})
        \cup [type : {"PermissionRequest"}, session_id : {"s1"}, tool_name : {"Bash"},
              parameters : ParamValues, result : {Absent}]

(* The observers that raise in one notification *)
Raising == SUBSET (1..Len(observers))

NextObservers ==
    \/ \E kind \in ObserverKinds : ObserversAppend(kind)
    \/ \E event \in ObserverEvents : \E raises \in Raising : StoreProcessEvent(event, raises)
    \/ \E m \in Messages : \E raises \in Raising : StoreAddMessage("s1", m, raises)
    \/ \E raises \in Raising : StoreClearApproval("s1", raises)

SpecObservers == Init /\ [][NextObservers]_vars

---------------------------------------------------------------------------
(* Phase / approval / tool coherence *)

DecisionFrames == {DecisionFrame(d) : d \in Decisions}
FrameSet(c) == {conns[c].frames[i] : i \in 1..Len(conns[c].frames)}

(* C1: in every reachable state every session has phase waiting_approval  *)
(* if and only if its pending_approval is set.                            *)
PhaseApprovalCoherence ==
    \A s \in DOMAIN sessions :
        (sessions[s].phase = "waiting_approval") <=> (sessions[s].pending_approval # None)

---------------------------------------------------------------------------
(* The approval protocol on the hook connection *)

(* C3: a frontend decision d for a session with a pending hook call       *)
(* writes the frame {decision: d, reason} on that call's connection,      *)
(* removes the pending hook call, clears the session's pending_approval   *)
(* and returns its phase to idle.                                         *)
ApprovalRoundTrip ==
    [][\A s \in SessionIds : \A d \in Decisions :
          (s \in DOMAIN pending_approvals /\ SendApprovalDecision(s, d))
              => /\ conns'[pending_approvals[s]].frames =
                        Append(conns[pending_approvals[s]].frames, DecisionFrame(d))
                 /\ s \notin DOMAIN pending_approvals'
                 /\ sessions'[s].pending_approval = None
                 /\ sessions'[s].phase = "idle"]_vars

(* C4: a connection that was sent the acknowledgement is not closed       *)
(* before a decision frame has been written on it.                        *)
ConnectionHeldUntilDecision ==
    \A c \in ConnIds :
        (conns[c].status = "closed" /\ AckFrame \in FrameSet(c))
            => \E f \in FrameSet(c) : f # AckFrame

(* C5: no hook call is still pending, and no approval still open, once    *)
(* approval_timeout has passed since the request: by then the server has  *)
(* written deny/timeout and closed the approval.                          *)
ApprovalTimesOut ==
    \A s \in DOMAIN sessions :
        (sessions[s].pending_approval # None)
            => now <= sessions[s].pending_approval.timestamp + ApprovalTimeout

SupersededFrame == [decision |-> "deny", reason |-> "superseded"]

(* C6: when a PermissionRequest replaces the pending hook call of a       *)
(* session, the prior connection is written deny/superseded exactly once, *)
(* and the session has one pending hook call afterwards.                  *)
ApprovalSupersession ==
    [][\A s \in SessionIds :
          (/\ s \in DOMAIN pending_approvals
           /\ s \in DOMAIN pending_approvals'
           /\ pending_approvals'[s] # pending_approvals[s])
              => conns'[pending_approvals[s]].frames =
                     Append(conns[pending_approvals[s]].frames, SupersededFrame)]_vars

---------------------------------------------------------------------------
(* The reducer *)

Matches(session, event) ==
    /\ session.active_tool # None
    /\ session.active_tool.name = Get(event.tool_name, "Unknown")

(* C7: a PostToolUse naming the active tool appends exactly one record to *)
(* tools, the former active tool closed with status success and the       *)
(* event's result, clears active_tool and sets the phase to idle.         *)
MatchingPostToolUseClosesTool ==
    [][\A event \in ReducerEvents :
          (/\ event.type = "PostToolUse"
           /\ event.session_id \in DOMAIN sessions
           /\ Matches(sessions[event.session_id], event)
           /\ ProcessKnownEvent(event))
              => LET before == sessions[event.session_id]
                     after == sessions'[event.session_id]
                 IN  /\ Len(after.tools) = Len(before.tools) + 1
                     /\ SubSeq(after.tools, 1, Len(before.tools)) = before.tools
                     /\ after.tools[Len(after.tools)] =
                            [name |-> before.active_tool.name,
                             status |-> "success",
                             result |-> event.result,
                             parameters |-> before.active_tool.parameters]
                     /\ after.active_tool = None
                     /\ after.phase = "idle"
                     /\ after.pending_approval = before.pending_approval]_vars

(* A tool started without parameters was completed while an approval was  *)
(* pending: its record is in tools and no tool is active.                 *)
ToolClosedReached ==
    \E s \in DOMAIN sessions :
        /\ Len(sessions[s].tools) = 1
        /\ sessions[s].tools[1].status = "success"
        /\ sessions[s].tools[1].result = "r1"
        /\ sessions[s].tools[1].parameters = "None"
        /\ sessions[s].active_tool = None
        /\ sessions[s].phase = "idle"
        /\ sessions[s].pending_approval # None

(* C8: a PostToolUse with no matching active_tool leaves the session as   *)
(* it was: phase, active_tool, tools and pending_approval.                *)
UnmatchedPostToolUseChangesNothing ==
    [][\A event \in ReducerEvents :
          (/\ event.type = "PostToolUse"
           /\ event.session_id \in DOMAIN sessions
           /\ ~Matches(sessions[event.session_id], event)
           /\ ProcessKnownEvent(event))
              => sessions'[event.session_id] = sessions[event.session_id]]_vars

(* C9: the store that was also given events of unrecognized kinds equals  *)
(* the store that was given the recognized events alone: the same         *)
(* sessions, each with the same phase, active_tool, tools,                *)
(* pending_approval and conversation.                                     *)
UnknownEventsChangeNothing == sessions = ref_sessions

(* C10: after a recognized event the session is as the reducer table says *)
ReducerTable ==
    [][\A event \in ReducerEvents :
          ProcessKnownEvent(event)
              => LET sid == event.session_id
                     existed == sid \in DOMAIN sessions
                     after == sessions'[sid]
                 IN  /\ sid \in DOMAIN sessions'
                     /\ event.type = "SessionStart" => after.phase = "idle"
                     /\ event.type = "UserPromptSubmit" => after.phase = "processing"
                     /\ event.type = "PreToolUse" =>
                            /\ after.phase = "running_tool"
                            /\ after.active_tool.name =
                                   (IF event.tool_name = Absent THEN "Unknown"
                                    ELSE event.tool_name)
                            /\ after.active_tool.status = "running"
                            /\ after.active_tool.parameters =
                                   (IF event.parameters = Absent THEN "None"
                                    ELSE event.parameters)
                     /\ event.type = "PermissionRequest" =>
                            /\ after.phase = "waiting_approval"
                            /\ after.pending_approval.tool_name =
                                   (IF event.tool_name = Absent THEN "Unknown"
                                    ELSE event.tool_name)
                            /\ after.pending_approval.parameters =
                                   (IF event.parameters = Absent THEN "{}"
                                    ELSE event.parameters)
                     /\ (event.type = "Notification" /\ existed) =>
                            after = sessions[sid]
                     /\ event.type \in {"Stop", "SubagentStop"} =>
                            /\ after.phase = "idle"
                            /\ after.active_tool = None
                            /\ existed => after.tools = sessions[sid].tools
                     /\ event.type = "SessionEnd" => after.phase = "completed"]_vars

(* A session that went through the table: a tool completed, another one   *)
(* started without a name or parameters, an approval requested without    *)
(* parameters, and the session ended.                                     *)
ReducerTableReached ==
    \E s \in DOMAIN sessions :
        /\ sessions[s].phase = "completed"
        /\ Len(sessions[s].tools) = 1
        /\ sessions[s].active_tool # None
        /\ sessions[s].active_tool.name = "Unknown"
        /\ sessions[s].active_tool.parameters = "None"
        /\ sessions[s].pending_approval # None
        /\ sessions[s].pending_approval.parameters = "{}"

---------------------------------------------------------------------------
(* Events, decisions and connections *)

(* C11: a hook event without session_id creates no session, changes no    *)
(* session and notifies no observer.                                      *)
EventWithoutSessionDropped ==
    [][\A c \in ConnIds : \A event \in NoSessionEvents :
          HandleClientEvent(c, event)
              => /\ sessions' = sessions
                 /\ emitted' = <<>>]_vars

(* A PermissionRequest without session_id was acknowledged on a           *)
(* connection and the store is still empty.                               *)
EventWithoutSessionReached ==
    /\ sessions = <<>>
    /\ pending_approvals = <<>>
    /\ \E c \in ConnIds : AckFrame \in FrameSet(c)

(* C15: every pending hook call pending_approvals[s] has a session s      *)
(* whose pending_approval is set, and every session whose                 *)
(* pending_approval is set has a pending hook call.                       *)
PendingCallCorrelation ==
    /\ \A s \in DOMAIN pending_approvals :
          s \in DOMAIN sessions /\ sessions[s].pending_approval # None
    /\ \A s \in DOMAIN sessions :
          sessions[s].pending_approval # None => s \in DOMAIN pending_approvals

(* A hook call is pending for a session that later events have moved out  *)
(* of waiting_approval.                                                   *)
PendingCallReached ==
    \E s \in DOMAIN pending_approvals :
        /\ sessions[s].pending_approval # None
        /\ sessions[s].phase = "completed"

(* C16: a decision for a session without a pending hook call writes on no *)
(* connection, leaves the pending hook calls and every session as they    *)
(* were and notifies no one.                                              *)
LateDecisionDropped ==
    [][\A s \in SessionIds : \A d \in Decisions :
          (s \notin DOMAIN pending_approvals /\ SendApprovalDecision(s, d))
              => /\ sessions' = sessions
                 /\ pending_approvals' = pending_approvals
                 /\ emitted' = <<>>
                 /\ \A c \in ConnIds :
                        conns'[c].frames \in {conns[c].frames, <<>>}]_vars

(* A session whose approval was decided (the decision frame is on its     *)
(* connection) and that has moved on: a further decision finds no call.   *)
LateDecisionReached ==
    /\ "s1" \in DOMAIN sessions
    /\ sessions["s1"].phase = "processing"
    /\ pending_approvals = <<>>
    /\ emitted = <<>>
    /\ \E c \in ConnIds : FrameSet(c) \cap DecisionFrames # {}

StateChangedSignals(signals, session_id) ==
    {i \in 1..Len(signals) :
        signals[i].signal = "SessionStateChanged" /\ signals[i].session_id = session_id}

(* C17: every event applied by SessionStore.process_event, of recognized  *)
(* kind or not, notifies the observer of the event's session exactly      *)
(* once, with the session as the event left it.                           *)
EveryEventNotifies ==
    [][\A event \in ReducerEvents :
          (ProcessKnownEvent(event) \/ ProcessUnknownEvent(event))
              => /\ Cardinality(StateChangedSignals(emitted', event.session_id)) = 1
                 /\ emitted'[1] = [signal |-> "SessionStateChanged",
                                   session_id |-> event.session_id,
                                   phase |-> sessions'[event.session_id].phase]]_vars

(* The observer was notified of a session that only events of             *)
(* unrecognized kind have touched.                                        *)
UnknownEventNotified ==
    /\ "s1" \in DOMAIN sessions
    /\ "s1" \notin DOMAIN ref_sessions
    /\ Cardinality(StateChangedSignals(emitted, "s1")) = 1

(* C19: no step removes a session, and SessionEnd leaves the session in   *)
(* the store with phase completed and its tools and conversation.         *)
SessionsRetained ==
    [][/\ DOMAIN sessions \subseteq DOMAIN sessions'
       /\ \A c \in ConnIds : \A event \in SocketEvents :
             (/\ event.type = "SessionEnd"
              /\ event.session_id \in DOMAIN sessions
              /\ HandleClientEvent(c, event))
                 => /\ sessions'[event.session_id].phase = "completed"
                    /\ sessions'[event.session_id].tools = sessions[event.session_id].tools
                    /\ sessions'[event.session_id].conversation =
                           sessions[event.session_id].conversation]_vars

(* An ended session that still holds a completed tool and a message *)
EndedSessionReached ==
    \E s \in DOMAIN sessions :
        /\ sessions[s].phase = "completed"
        /\ Len(sessions[s].tools) = 1
        /\ Len(sessions[s].conversation) = 1

(* C20: for an event of any kind other than PermissionRequest the server  *)
(* applies the event, writes nothing on the connection, closes it and     *)
(* registers no pending hook call.                                        *)
OtherEventsGetNoResponse ==
    [][\A c \in {a \in ConnIds : Accepts(Released(conns, pending_approvals), a)} :
       \A event \in {e \in SocketEvents : e.type # "PermissionRequest"} :
          HandleClientEvent(c, event)
              => /\ conns'[c] = [status |-> "closed", frames |-> <<>>]
                 /\ pending_approvals' = pending_approvals
                 /\ ~Falsy(event.session_id) =>
                        /\ event.session_id \in DOMAIN sessions'
                        /\ emitted' # <<>>]_vars

(* A PreToolUse was applied and its connection closed with nothing        *)
(* written on it.                                                         *)
OtherEventReached ==
    /\ "s1" \in DOMAIN sessions
    /\ sessions["s1"].phase = "running_tool"
    /\ emitted # <<>>
    /\ emitted[1].phase = "running_tool"
    /\ \E c \in ConnIds : conns[c] = [status |-> "closed", frames |-> <<>>]

---------------------------------------------------------------------------
(* The conversation log *)

(* on_modified passed the debounce check and polled the log *)
Polled == OnModified("s1") /\ "s1" \notin debounce_times

ClearMarks(messages) ==
    {i \in 1..Len(messages) : messages[i] = LogMessage("clear")}

(* The messages behind the last reset marker *)
FollowingMarker(messages) ==
    IF ClearMarks(messages) = {} THEN messages
    ELSE SubSeq(messages,
                1 + CHOOSE i \in ClearMarks(messages) :
                        \A j \in ClearMarks(messages) : j <= i,
                Len(messages))

(* C12: after a poll that sees a /clear user message in the log of a      *)
(* session, the conversation of the session is exactly the records that   *)
(* follow the reset marker in the file, in file order.                    *)
ClearReset ==
    [][(/\ Polled
        /\ "s1" \in DOMAIN sessions
        /\ detect_clear_command(poll(parsers, sessions, log, "s1").new_messages))
           => sessions'["s1"].conversation = FollowingMarker(parse_full(log).messages)]_vars

(* The offset of the first piece of the unterminated last line *)
PartialStart(text) ==
    IF \E i \in 1..Len(text) : text[i] = Newline
    THEN CHOOSE i \in 1..Len(text) :
             text[i] = Newline /\ \A j \in (i + 1)..Len(text) : text[j] # Newline
    ELSE 0

(* C13: a poll of a log that ends in a line without its newline leaves    *)
(* last_position at the first piece of that line, so that the line is     *)
(* read whole once it is complete.                                        *)
PartialLineNotConsumed ==
    [][(/\ (Start /\ log.exists) \/ OnCreated \/ Polled
        /\ EndsInPartialLine(log)
        /\ ~detect_clear_command(parse_full(log).messages)
        /\ "s1" \in DOMAIN parsers => parsers["s1"] <= PartialStart(log.text))
           => parsers'["s1"] = PartialStart(log.text)]_vars

(* C14: a poll that finds the log shorter than last_position reads it     *)
(* again from the start: last_position ends inside the file and the       *)
(* records of the file are added to the conversation.                     *)
TruncationResetsOffset ==
    [][(/\ Polled
        /\ "s1" \in DOMAIN parsers
        /\ parsers["s1"] > Len(log.text))
           => /\ parsers'["s1"] <= Len(log.text)
              /\ ("s1" \in DOMAIN sessions
                     /\ ~detect_clear_command(parse_full(log).messages))
                    => sessions'["s1"].conversation =
                           sessions["s1"].conversation \o parse_full(log).messages]_vars

Contains(conversation, message) ==
    \E i \in 1..Len(conversation) : conversation[i] = message

(* C18: the first record of the log observed by the startup scan, by      *)
(* on_created or by on_modified for a session the store does not hold     *)
(* creates the session, with the record in its conversation.              *)
LogObservationCreatesSession ==
    [][/\ (/\ (Start /\ log.exists) \/ OnCreated
           /\ "s1" \notin DOMAIN sessions
           /\ parse_full(log).messages # <<>>)
              => /\ "s1" \in DOMAIN sessions'
                 /\ Contains(sessions'["s1"].conversation, parse_full(log).messages[1])
       /\ (/\ Polled
           /\ "s1" \notin DOMAIN sessions
           /\ poll(parsers, sessions, log, "s1").new_messages # <<>>)
              => /\ "s1" \in DOMAIN sessions'
                 /\ Contains(sessions'["s1"].conversation,
                             poll(parsers, sessions, log, "s1").new_messages[1])]_vars

---------------------------------------------------------------------------
(* Failures on the hook socket and what the frontend is told *)

(* C21: a connection whose payload is empty or is not JSON is closed with *)
(* no session created or changed, no observer notified and no pending     *)
(* hook call registered.                                                  *)
MalformedPayloadDropped ==
    [][\A c \in ConnIds :
          HandleClientMalformed(c)
              => /\ sessions' = sessions
                 /\ pending_approvals' = pending_approvals
                 /\ emitted' = <<>>
                 /\ conns'[c] = [status |-> "closed", frames |-> <<>>]]_vars

(* A connection was closed with nothing written while the session waits   *)
(* for a decision on the other one.                                       *)
MalformedPayloadReached ==
    /\ "s1" \in DOMAIN pending_approvals
    /\ sessions["s1"].phase = "waiting_approval"
    /\ emitted = <<>>
    /\ \E c \in ConnIds :
          /\ c # pending_approvals["s1"]
          /\ conns[c] = [status |-> "closed", frames |-> <<>>]

(* C22: a decision whose write fails because the hook's connection is     *)
(* gone still removes the pending hook call, clears pending_approval,     *)
(* makes the phase idle and notifies the observers.                       *)
FailedWriteStillCleansUp ==
    [][\A s \in SessionIds : \A d \in Decisions :
          (/\ s \in DOMAIN pending_approvals
           /\ conns[pending_approvals[s]].status # "open"
           /\ SendApprovalDecision(s, d))
              => /\ s \notin DOMAIN pending_approvals'
                 /\ sessions'[s].pending_approval = None
                 /\ sessions'[s].phase = "idle"
                 /\ emitted' = <<[signal |-> "SessionStateChanged", session_id |-> s,
                                  phase |-> "idle"]>>]_vars

(* The approval of s1 was closed although its connection, which holds the *)
(* acknowledgement only, was gone when the decision came.                 *)
FailedWriteReached ==
    /\ "s1" \in DOMAIN sessions
    /\ sessions["s1"].pending_approval = None
    /\ sessions["s1"].phase = "idle"
    /\ pending_approvals = <<>>
    /\ emitted = <<[signal |-> "SessionStateChanged", session_id |-> "s1",
                    phase |-> "idle"]>>
    /\ \E c \in ConnIds : conns[c] = [status |-> "closed", frames |-> <<AckFrame>>]
    /\ \A c \in ConnIds : FrameSet(c) \cap DecisionFrames = {}

(* C26: every message appended to the conversation of a session is        *)
(* published as a NewMessage signal that carries the message.             *)
NewMessagePublished ==
    [][\A m \in Messages :
          ("s1" \in DOMAIN sessions /\ AddMessage("s1", m))
              => \E i \in 1..Len(emitted') :
                    /\ emitted'[i].signal = "NewMessage"
                    /\ emitted'[i].session_id = "s1"
                    /\ emitted'[i].message = m]_vars

ShutdownFrame == [decision |-> "deny", reason |-> "shutdown"]

(* C25: on shutdown every connection with a pending hook call is sent     *)
(* {decision: deny, reason: shutdown} and no pending hook call remains.   *)
ShutdownDeniesPending ==
    [][Stop => /\ \A s \in DOMAIN pending_approvals :
                     ShutdownFrame \in {conns'[pending_approvals[s]].frames[i] :
                                           i \in 1..Len(conns'[pending_approvals[s]].frames)}
               /\ pending_approvals' = <<>>]_vars

---------------------------------------------------------------------------
(* Observers and the threads *)

(* C23: the observer is notified of the changes of the store in the order *)
(* in which they were applied, and at each notification it sees the       *)
(* session as that change left it.                                        *)
DeltaOrdering ==
    \A i \in 1..Len(seen) :
        /\ seen[i].session = applied[seen[i].change]
        /\ \A j \in 1..(i - 1) : seen[j].change < seen[i].change

(* C24: while an observer is still handling a notification the store      *)
(* call that issued it has completed and the main thread can apply the    *)
(* next hook event.                                                       *)
SlowSubscriberDoesNotStall ==
    (InStage(main_call, "notifying") /\ Len(applied) < MaxChanges)
        => ENABLED (\E event \in ThreadEvents : MainApply(event))

---------------------------------------------------------------------------
(* Debounce and the order of the conversation *)

(* C27: a modified event of a path inside the debounce window of the last *)
(* poll of that path is dropped without a poll; outside the window it     *)
(* polls, whatever the windows of other paths.                            *)
PerPathDebounce ==
    [][\A path \in Paths :
          OnModified(path)
              => IF path \in debounce_times
                 THEN /\ parsers' = parsers
                      /\ sessions' = sessions
                      /\ debounce_times' = debounce_times
                 ELSE /\ path \in DOMAIN parsers'
                      /\ parsers' = poll(parsers, sessions, LogOf(path), path).parsers
                      /\ sessions' = poll(parsers, sessions, LogOf(path), path).sessions
                      /\ path \in debounce_times']_vars

(* Both logs were polled, each inside the window of the other *)
BothPathsPolled ==
    /\ debounce_times = Paths
    /\ Paths \subseteq DOMAIN parsers
    /\ "s1" \in DOMAIN sessions
    /\ sessions["s1"].conversation # <<>>

IsPrefix(a, b) == Len(a) <= Len(b) /\ SubSeq(b, 1, Len(a)) = a

(* C28: in every step the conversation of a session is a prefix of its    *)
(* new conversation, except in a poll that reads a reset marker, which    *)
(* empties it: it then holds what follows the marker in the batch.        *)
ConversationGrows ==
    [][\A s \in DOMAIN sessions :
          IF Polled /\ detect_clear_command(poll(parsers, sessions, log, "s1").new_messages)
          THEN sessions'[s].conversation =
                   FollowingMarker(poll(parsers, sessions, log, "s1").new_messages)
          ELSE IsPrefix(sessions[s].conversation, sessions'[s].conversation)]_vars

(* The offset behind the line that begins at offset i + 1 *)
RECURSIVE LineEnd(_, _)
LineEnd(text, i) ==
    IF i >= Len(text) THEN Len(text)
    ELSE IF text[i + 1] = Newline THEN i + 1
    ELSE LineEnd(text, i + 1)

(* The messages of the well-formed lines of a text behind offset i, in    *)
(* the order of the file: a line is well-formed when it is the two halves *)
(* of one record.                                                         *)
RECURSIVE FileMessages(_, _)
FileMessages(text, i) ==
    IF i >= Len(text) THEN <<>>
    ELSE LET line == SubSeq(text, i + 1, LineEnd(text, i))
             whole == /\ Len(line) >= 2
                      /\ line[1].half = 1
                      /\ line[2] = Half(line[1].record, 2)
                      /\ Len(line) = 3 => line[3] = Newline
                      /\ Len(line) <= 3
         IN  (IF whole THEN <<LogMessage(line[1].record)>> ELSE <<>>)
                 \o FileMessages(text, LineEnd(text, i))

RECURSIVE IsSubseq(_, _)
IsSubseq(a, b) ==
    IF a = <<>> THEN TRUE
    ELSE IF b = <<>> THEN FALSE
    ELSE IF Head(a) = Head(b) THEN IsSubseq(Tail(a), Tail(b))
    ELSE IsSubseq(a, Tail(b))

(* The scan, on_created or on_modified read the log of s1 *)
LogObserved == (Start /\ log.exists) \/ OnCreated \/ Polled

(* C29: what a reading of the log adds to the conversation - behind what  *)
(* the conversation held, or behind nothing when the reading emptied it - *)
(* is in the order of the file.                                           *)
FileOrder ==
    [][(LogObserved /\ "s1" \in DOMAIN sessions)
          => \E base \in {sessions["s1"].conversation, <<>>} :
                /\ IsPrefix(base, sessions'["s1"].conversation)
                /\ IsSubseq(SubSeq(sessions'["s1"].conversation, Len(base) + 1,
                                   Len(sessions'["s1"].conversation)),
                            FileMessages(log.text, 0))]_vars

(* Two records of the log were read in one poll and stand in the          *)
(* conversation in the order of the file.                                 *)
FileOrderReached ==
    /\ log.text = Line("m1") \o Line("clear")
    /\ "s1" \in DOMAIN sessions
    /\ sessions["s1"].conversation = <<LogMessage("m1"), LogMessage("clear")>>
    /\ emitted # <<>>

(* A line of the text is not a well-formed record *)
HasMalformedLine(text) ==
    Cardinality({j \in 1..Len(text) : text[j] = Newline}) > Len(FileMessages(text, 0))

(* The offset the next reading of the log of s1 starts from *)
ReadFrom == IF started /\ "s1" \in DOMAIN parsers THEN parsers["s1"] ELSE 0

---------------------------------------------------------------------------
(* The observers of the store *)

(* C31: when observers raise while being notified, every observer is      *)
(* still called, the store call returns normally, and the store is what   *)
(* the call makes of it with no observer raising.                         *)
ObserverFailureContained ==
    [][\A raises \in Raising :
          /\ \A event \in ObserverEvents :
                StoreProcessEvent(event, raises)
                   => /\ notified' = [i \in 1..Len(observers) |-> i]
                      /\ returned'
                      /\ sessions' = process_event(sessions, event, now)
          /\ \A m \in Messages :
                StoreAddMessage("s1", m, raises)
                   => /\ notified' = [i \in 1..Len(observers) |-> i]
                      /\ returned'
                      /\ sessions' = add_message(sessions, "s1", m)
          /\ StoreClearApproval("s1", raises)
                => /\ notified' = [i \in 1..Len(observers) |-> i]
                   /\ returned'
                   /\ sessions' = clear_approval(sessions, "s1")]_vars

(* The first of several observers raised, the others were called after it *)
(* and the call returned.                                                 *)
ObserverFailureReached ==
    /\ Len(observers) >= 2
    /\ 1 \in logged
    /\ notified = [i \in 1..Len(observers) |-> i]
    /\ returned
    /\ "s1" \in DOMAIN sessions
    /\ sessions["s1"].phase = "waiting_approval"

---------------------------------------------------------------------------
(* The frontend's decisions *)

(* The session waits for the approval of another tool than the one the    *)
(* dialog asked about: the request of the dialog was replaced.            *)
Replaced(dialog) ==
    /\ dialog.session_id \in DOMAIN pending_approvals
    /\ sessions[dialog.session_id].pending_approval # None
    /\ sessions[dialog.session_id].pending_approval.tool_name # dialog.tool_name

(* C32: the answer to a dialog whose request was replaced by a later      *)
(* request of the session does not resolve the later request: nothing is  *)
(* written on its connection, its hook call stays pending and its         *)
(* approval stays open.                                                   *)
StaleDecisionNotDelivered ==
    [][\A dialog \in Dialogs : \A decision \in Decisions :
          (DialogResponse(dialog, decision) /\ Replaced(dialog))
             => /\ conns'[pending_approvals[dialog.session_id]]
                     = Released(conns, pending_approvals)[pending_approvals[dialog.session_id]]
                /\ pending_approvals' = pending_approvals
                /\ sessions' = sessions]_vars

(* The connections that asked for an approval, still wait for its        *)
(* decision and are not the one pending_approvals holds for the session:  *)
(* a later PermissionRequest of the session took their place.             *)
Superseded(session_id) ==
    {c \in ConnIds : /\ conns[c].status = "open"
                     /\ conns[c].frames = <<AckFrame>>
                     /\ session_id \in DOMAIN pending_approvals
                     /\ pending_approvals[session_id] # c}

DecisionKeepsOtherPhase ==
    [][\A s \in SessionIds : \A decision \in Decisions :
          (/\ SendApprovalDecision(s, decision)
           /\ s \in DOMAIN sessions
           /\ sessions[s].phase # "waiting_approval")
             => /\ sessions'[s].phase = sessions[s].phase
                /\ sessions'[s].active_tool = sessions[s].active_tool]_vars

(* The PermissionRequest signals among the signals of an operation *)
PermissionSignals(signals) ==
    Cardinality({i \in 1..Len(signals) : signals[i].signal = "PermissionRequest"})

(* C35: the PermissionRequest signal is published once by the operation   *)
(* that handles a PermissionRequest hook event of a session, and by no    *)
(* other operation, whether or not an approval is pending.                *)
PermissionPublishedOnce ==
    [][PermissionSignals(emitted')
          = IF \E c \in ConnIds : \E event \in SocketEvents :
                  /\ event.type = "PermissionRequest"
                  /\ ~Falsy(event.session_id)
                  /\ HandleClientEvent(c, event)
            THEN 1 ELSE 0]_vars

---------------------------------------------------------------------------
(* The hook script *)

(* C36: what the hook script of a PermissionRequest prints is a decision  *)
(* object whose decision is allow or deny.                                *)
HookPrintsDecision ==
    printed # None
       => "decision" \in DOMAIN printed /\ printed.decision \in Decisions

---------------------------------------------------------------------------
(* The log and the conversation *)

Occurrences(seq, x) == Cardinality({i \in 1..Len(seq) : seq[i] = x})

(* C37: with a log that is only appended to and holds no reset marker, a  *)
(* record is in the conversation at most as often as it is in the log.    *)
RecordsAtMostOnce ==
    "s1" \in DOMAIN sessions
       => \A r \in LogRecords :
             Occurrences(sessions["s1"].conversation, LogMessage(r))
                <= Occurrences(FileMessages(log.text, 0), LogMessage(r))

(* C38: a GetConversation that runs while on_modified handles a batch     *)
(* with /clear returns the conversation as it was before the batch or as  *)
(* it is after the whole batch.                                           *)
ReadsSeeWholeReset ==
    (/\ reader_view # None
     /\ reader_view.during # None
     /\ reader_view.during.clear
     /\ reader_view.during.known)
       => reader_view.messages \in {reader_view.during.before, reader_view.during.after}

(* The monitor has nothing left to do: it runs and no event of the log is *)
(* waiting to be delivered.                                               *)
Quiescent == started /\ ~watch.created /\ ~watch.modified

(* C39: once the monitor has handled every event of the log, every        *)
(* complete record of the log is in the conversation of the session: no   *)
(* record waits for a further modification of the file.                   *)
RecordsEventuallyRead ==
    (Quiescent /\ "s1" \in DOMAIN sessions)
       => \A r \in DrainRecords :
             Occurrences(sessions["s1"].conversation, LogMessage(r))
                >= Occurrences(FileMessages(log.text, 0), LogMessage(r))

=============================================================================
